---------------------------- MODULE Spec2Model ----------------------------
(***************************************************************************)
(* The unified multi-chain wallet session of unichain-wallet-kit.          *)
(*                                                                         *)
(* Three React providers implement the session:                            *)
(*   WalletProvider          src/src/core/provider.tsx                     *)
(*   UnifiedWalletProvider   src/unnamed/part_004                          *)
(*   UnifiedWalletProvider   src/src/unified/index.tsx  (hook variant)     *)
(* One of them is mounted in a behaviour (variable provider).  A handler   *)
(* (connect, disconnect, switchChain, signMessage, sendTransaction) holds  *)
(* no await, so it runs to completion and React applies its queued         *)
(* functional updates in order before the next handler runs: each handler  *)
(* is one action.                                                          *)
(***************************************************************************)
EXTENDS Naturals, Sequences, FiniteSets, TLC

VARIABLES
    provider,        \* which provider component is mounted
    env,             \* what the runtime offers as localStorage
    helperBound,     \* whether core/provider.tsx's free name setStorageItem resolves
    autoConnect,     \* prop autoConnect
    defaultChain,    \* prop defaultChain / config.defaultChain (NULL: not given)
    phase,           \* "rendered" (first render done), "mounted" (effects ran), "crashed"
    state,           \* useState<WalletState>
    activeChain,     \* useState<ChainType | null>
    evmConnected,    \* useState(false), part_004
    solanaConnected, \* useState(false), part_004
    tonConnected,    \* useState(false), part_004
    storage,         \* localStorage contents, kept across reloads
    lastOp,          \* the last handler call: the session it met, what came back
    effectConnects,  \* connect calls made by the auto-connect effect since the page load
    lastStore,       \* the last direct call of a storage helper of core/adapter.ts
    log,             \* the calls of a first run and what each one showed
    replay,          \* 0 in a first run; in the second run, the next entry of log
    adapter,         \* which chain provider is mounted (ton, solana, evm)
    adPhase,         \* the chain provider: rendered, then mounted
    wallet,          \* the account the wallet library holds, or null
    adState,         \* the state the chain provider exposes
    adLast,          \* the last call of the chain provider's connect / disconnect
    balanceFetch,    \* whether a balance query of the chain provider is under way
    ncProvider,      \* NearProvider (near/index.ts or part_006) or CosmosProvider
    ncPhase,         \* rendered, mounted, or away at the wallet's login page
    ncStorage,       \* the localStorage keys of the NEAR and Cosmos providers
    ncState,         \* the state the provider exposes
    keplr,           \* the account window.keplr holds, or null when it is not installed
    handshake,       \* the address a wallet handed over in this page load, or null
    ncLast,          \* the last call of the provider
    agProvider,      \* AgentWalletProvider (agent/index.ts) or AgentProvider (part_000)
    agDefaultPolicy, \* prop defaultPolicy, or null
    agState,         \* useState<AgentWalletState>
    walletClient,    \* whether initialize made a wallet client (a private key was given)
    sentToday,       \* the amounts of the sends that came back as sent, summed
    agLast,          \* the last sendTransaction / transfer call
    pkState,         \* useState<PasskeyState>
    pkRegistering,   \* register calls waiting for navigator.credentials.create
    pkLast,          \* the last register / deleteCredential call that settled
    pmAddress,       \* prop address of PaymasterProvider, or null
    pmSignFn,        \* whether prop signFn is given
    isSending,       \* useState(false) of PaymasterProvider
    pmCalls,         \* where each sendUserOperation call stands
    pmLast,          \* what the last settled sendUserOperation call returned
    btActions,       \* the actions handed to AgentActions.batch, each with how its send ends
    btIndex,         \* the action the for loop of batch stands at
    btSent,          \* the actions handed to sendTransaction so far, in the order of the calls
    btHashes,        \* const hashes of batch
    btOutcome,       \* how batch ended, or running
    invoice,         \* useState<X402Invoice | null> of X402Provider
    isProcessing,    \* useState(false) of X402Provider
    x4Error,         \* useState<string | null> of X402Provider
    x4Created,       \* how many invoices createInvoice has made
    x4Pays,          \* where each payInvoice call stands, and for which invoice
    x4Sent,          \* the invoices sendTxFn resolved for
    x4Failed,        \* the invoices a payInvoice call rejected for
    x4Last           \* the payInvoice call that settled in the last step

\* What the chain providers and the direct storage calls add to the session.
storeVars == <<lastStore>>

replayVars == <<log, replay>>

adapterVars == <<adapter, adPhase, wallet, adState, adLast, balanceFetch>>

nearCosmosVars == <<ncProvider, ncPhase, ncStorage, ncState, keplr, handshake, ncLast>>

agentVars == <<agProvider, agDefaultPolicy, agState, walletClient, sentToday, agLast>>

passkeyVars == <<pkState, pkRegistering, pkLast>>

paymasterVars == <<pmAddress, pmSignFn, isSending, pmCalls, pmLast>>

batchVars == <<btActions, btIndex, btSent, btHashes, btOutcome>>

x402Vars == <<invoice, isProcessing, x4Error, x4Created, x4Pays, x4Sent, x4Failed, x4Last>>

\* The providers outside the unified session and the chain adapters.
extraVars == <<nearCosmosVars, agentVars, passkeyVars, paymasterVars, batchVars, x402Vars>>

outside == <<storeVars, replayVars, adapterVars, extraVars>>

vars == <<provider, env, helperBound, autoConnect, defaultChain, phase, state,
          activeChain, evmConnected, solanaConnected, tonConnected, storage, lastOp,
          effectConnects, outside>>

config == <<provider, env, helperBound, autoConnect, defaultChain>>

\* JavaScript's null / undefined.
NULL == "null"

\* type ChainType = 'evm' | 'solana' | 'ton'
ChainType == {"evm", "solana", "ton"}

\* SUPPORTED_CHAINS: a network id and the chain family it belongs to.
SUPPORTED_CHAINS ==
    { [id |-> "1", type |-> "evm"],
      [id |-> "8453", type |-> "evm"],
      [id |-> "42161", type |-> "evm"],
      [id |-> "137", type |-> "evm"],
      [id |-> "mainnet-beta", type |-> "solana"],
      [id |-> "devnet", type |-> "solana"],
      [id |-> "-239", type |-> "ton"] }

ChainIds == { c.id : c \in SUPPORTED_CHAINS }

\* The family a network id belongs to (NULL: none).
ChainTypeOf(id) ==
    IF \E c \in SUPPORTED_CHAINS : c.id = id
    THEN (CHOOSE c \in SUPPORTED_CHAINS : c.id = id).type
    ELSE NULL

Providers == {"WalletProvider", "UnifiedWalletProvider", "UnifiedWalletHook"}

\* localStorage as the runtime offers it: usable, no window at all (server
\* render), or present but every access throws (storage blocked).
Envs == {"available", "noWindow", "throws"}

\* storageKey = 'unichain-wallet'
storageKey == "unichain-wallet"

ChainKey == storageKey \o "-chain"

AddressKey == storageKey \o "-address"

StorageKeys == {ChainKey, AddressKey}

EmptyStorage == [k \in StorageKeys |-> NULL]

\* DEFAULT_STATE of core/provider.tsx and part_004.
DEFAULT_STATE ==
    [isConnected |-> FALSE, address |-> NULL, chain |-> NULL, chainId |-> NULL,
     balance |-> NULL, isConnecting |-> FALSE, error |-> NULL]

\* config?.defaultChain || 'evm'
ConfigDefaultChain == IF defaultChain # NULL THEN defaultChain ELSE "evm"

\* The useState initial value of unified/index.tsx (also what its disconnect sets).
HookInitialState ==
    [isConnected |-> FALSE, address |-> NULL, chain |-> ConfigDefaultChain,
     chainId |-> NULL, balance |-> NULL]

InitialState == IF provider = "UnifiedWalletHook" THEN HookInitialState ELSE DEFAULT_STATE

(***************************************************************************)
(* The Persistence Store.                                                  *)
(***************************************************************************)

\* A direct use of the global localStorage throws (ReferenceError without a
\* window, SecurityError when storage is blocked).
LocalStorageThrows == env # "available"

LocalStorageError ==
    IF env = "noWindow" THEN "localStorage is not defined" ELSE "The operation is insecure."

\* How a storage call ends: it returns v or it throws; st is what localStorage
\* holds afterwards.
Returned(v, st) == [threw |-> FALSE, value |-> v, storage |-> st]

Thrown(st) == [threw |-> TRUE, value |-> NULL, storage |-> st]

\* localStorage.getItem(key), .setItem(key, value), .removeItem(key)
LocalStorageGetItem(st, key) ==
    IF LocalStorageThrows THEN Thrown(st) ELSE Returned(st[key], st)

LocalStorageSetItem(st, key, value) ==
    IF LocalStorageThrows THEN Thrown(st)
    ELSE Returned("undefined", [st EXCEPT ![key] = value])

LocalStorageRemoveItem(st, key) ==
    IF LocalStorageThrows THEN Thrown(st)
    ELSE Returned("undefined", [st EXCEPT ![key] = NULL])

\* A helper whose try block has no catch: what localStorage throws goes on.
TryCatch_NoCatch(r, fallback) == r

\* try { <r> } catch { return fallback }
TryCatch(r, fallback) == IF r.threw THEN Returned(fallback, r.storage) ELSE r

\* The helpers of core/adapter.ts as calls: the window guard, then the
\* localStorage call inside try / catch.
GetStorageItemCall(st, key) ==
    IF env = "noWindow" THEN Returned(NULL, st)
    ELSE TryCatch(LocalStorageGetItem(st, key), NULL)

SetStorageItemCall(st, key, value) ==
    IF env = "noWindow" THEN Returned("undefined", st)
    ELSE TryCatch(LocalStorageSetItem(st, key, value), "undefined")

RemoveStorageItemCall(st, key) ==
    IF env = "noWindow" THEN Returned("undefined", st)
    ELSE TryCatch(LocalStorageRemoveItem(st, key), "undefined")

\* The same helpers as the providers use them: the value read, the storage left.
getStorageItem(key) == GetStorageItemCall(storage, key).value

setStorageItem(st, key, value) == SetStorageItemCall(st, key, value).storage

removeStorageItem(st, key) == RemoveStorageItemCall(st, key).storage

(***************************************************************************)
(* What a handler call leaves behind.                                      *)
(***************************************************************************)

Resolved(v) == [kind |-> "resolved", value |-> v]

Rejected(msg) == [kind |-> "rejected", value |-> msg]

\* The session as it is now, with a call's result and the callbacks it invoked.
Outcome(result, callbacks) ==
    [state |-> state, activeChain |-> activeChain, evmConnected |-> evmConnected,
     solanaConnected |-> solanaConnected, tonConnected |-> tonConnected,
     storage |-> storage, result |-> result, callbacks |-> callbacks]

\* The session: the React state of the provider and the persisted keys.
Session ==
    [state |-> state, activeChain |-> activeChain, evmConnected |-> evmConnected,
     solanaConnected |-> solanaConnected, tonConnected |-> tonConnected,
     storage |-> storage]

\* No handler has been called since the page was loaded with localStorage st.
NoOp(st) ==
    [op |-> "none", arg |-> << >>, via |-> "none",
     pre |-> [state |-> InitialState, activeChain |-> NULL, evmConnected |-> FALSE,
              solanaConnected |-> FALSE, tonConnected |-> FALSE, storage |-> st],
     result |-> Resolved("undefined"), callbacks |-> {}]


(***************************************************************************)
(* connect                                                                 *)
(***************************************************************************)

\* setState(prev => ({ ...prev, isConnecting: true, error: null }))
ConnectBegin(s) == [s EXCEPT !.isConnecting = TRUE, !.error = NULL]

\* The try block of WalletProvider.connect: what it has done when it ends or
\* throws.  setActiveChain(chain) comes before the call of setStorageItem, a
\* name core/provider.tsx never imports: it either resolves to core/adapter's
\* helper or raises a ReferenceError.
CoreConnectTry(chain) ==
    IF chain # NULL
    THEN IF helperBound
         THEN [threw |-> FALSE, msg |-> NULL, activeChain |-> chain,
               storage |-> setStorageItem(storage, ChainKey, chain)]
         ELSE [threw |-> TRUE, msg |-> "setStorageItem is not defined",
               activeChain |-> chain, storage |-> storage]
    ELSE IF LocalStorageThrows
         THEN [threw |-> TRUE, msg |-> LocalStorageError,
               activeChain |-> activeChain, storage |-> storage]
         ELSE [threw |-> FALSE, msg |-> NULL,
               activeChain |-> IF storage[ChainKey] # NULL
                               THEN storage[ChainKey] ELSE activeChain,
               storage |-> storage]

\* A catch block that records the error but leaves isConnecting as it is.
ConnectCatch_StaysConnecting(s, msg) == [s EXCEPT !.error = msg]

\* The catch block of connect: isConnecting false, error set, onError called.
ConnectCatch(s, msg) == [s EXCEPT !.isConnecting = FALSE, !.error = msg]

\* WalletProvider.connect(chain?)
CoreConnect(chain) ==
    LET s1 == ConnectBegin(state)
        t  == CoreConnectTry(chain)
    IN  IF t.threw
        THEN [Outcome(Resolved("undefined"), {"onError"}) EXCEPT
                 !.state = ConnectCatch(s1, t.msg),
                 !.activeChain = t.activeChain,
                 !.storage = t.storage]
        ELSE [Outcome(Resolved("undefined"), {}) EXCEPT
                 !.state = [s1 EXCEPT !.isConnecting = FALSE],
                 !.activeChain = t.activeChain,
                 !.storage = t.storage]

\* UnifiedWalletProvider.connect(chain?) of part_004: nothing in its try block
\* can throw (the storage helper swallows), so its catch block is never entered.
UnifiedConnect(chain) ==
    LET targetChain == IF chain # NULL THEN chain
                       ELSE IF defaultChain # NULL THEN defaultChain ELSE "evm"
        s1 == ConnectBegin(state)
    IN  [Outcome(Resolved("undefined"), {}) EXCEPT
            !.state = [s1 EXCEPT !.isConnecting = FALSE, !.chain = targetChain],
            !.activeChain = targetChain,
            !.storage = setStorageItem(storage, ChainKey, targetChain)]

\* UnifiedWalletProvider.connect(chain?) of unified/index.tsx
HookConnect(chain) ==
    LET targetChain == IF chain # NULL THEN chain ELSE ConfigDefaultChain
    IN  [Outcome(Resolved("undefined"), {}) EXCEPT
            !.state = [state EXCEPT !.chain = targetChain]]

(***************************************************************************)
(* disconnect                                                              *)
(***************************************************************************)

\* A disconnect that resets the state but forgets setActiveChain(null).
CoreDisconnect_KeepsActiveChain ==
    IF LocalStorageThrows
    THEN [Outcome(Resolved("undefined"), {}) EXCEPT !.state = DEFAULT_STATE]
    ELSE [Outcome(Resolved("undefined"), {"onDisconnect"}) EXCEPT
             !.state = DEFAULT_STATE,
             !.storage = [storage EXCEPT ![AddressKey] = NULL, ![ChainKey] = NULL]]

\* WalletProvider.disconnect: the state is reset before the direct
\* localStorage?.removeItem calls, which throw where there is no usable
\* localStorage; the catch block only logs, and onDisconnect is then skipped.
CoreDisconnect ==
    IF LocalStorageThrows
    THEN [Outcome(Resolved("undefined"), {}) EXCEPT
             !.state = DEFAULT_STATE,
             !.activeChain = NULL]
    ELSE [Outcome(Resolved("undefined"), {"onDisconnect"}) EXCEPT
             !.state = DEFAULT_STATE,
             !.activeChain = NULL,
             !.storage = [storage EXCEPT ![AddressKey] = NULL, ![ChainKey] = NULL]]

\* The effect of part_004 lines 79-82, run when one of the three flags changed.
IsConnectedEffect(s, evm, sol, ton) == [s EXCEPT !.isConnected = evm \/ sol \/ ton]

\* UnifiedWalletProvider.disconnect of part_004
UnifiedDisconnect ==
    LET flagsChanged == evmConnected \/ solanaConnected \/ tonConnected
    IN  [Outcome(Resolved("undefined"), {"onDisconnect"}) EXCEPT
            !.evmConnected = FALSE,
            !.solanaConnected = FALSE,
            !.tonConnected = FALSE,
            !.state = IF flagsChanged
                      THEN IsConnectedEffect(DEFAULT_STATE, FALSE, FALSE, FALSE)
                      ELSE DEFAULT_STATE,
            !.activeChain = NULL,
            !.storage = removeStorageItem(removeStorageItem(storage, AddressKey), ChainKey)]

\* UnifiedWalletProvider.disconnect of unified/index.tsx
HookDisconnect ==
    [Outcome(Resolved("undefined"), {}) EXCEPT !.state = HookInitialState]

(***************************************************************************)
(* switchChain, signMessage, sendTransaction                               *)
(***************************************************************************)

\* WalletProvider.switchChain(chainId) and part_004's: the same body.
SwitchChainId(chainId) ==
    [Outcome(Resolved("undefined"), {}) EXCEPT !.state = [state EXCEPT !.chainId = chainId]]

\* unified/index.tsx: switchChain(chain: ChainType) sets the chain family.
HookSwitchChain(chain) ==
    [Outcome(Resolved("undefined"), {}) EXCEPT !.state = [state EXCEPT !.chain = chain]]

\* WalletProvider.signMessage(message)
CoreSignMessage(message) ==
    IF ~state.isConnected
    THEN Outcome(Rejected("Wallet not connected"), {})
    ELSE Outcome(Resolved(""), {})

\* A sendTransaction that lost its isConnected guard.
CoreSendTransaction_NoGuard(to, value, data) == Outcome(Resolved(""), {})

\* WalletProvider.sendTransaction(to, value, data)
CoreSendTransaction(to, value, data) ==
    IF ~state.isConnected
    THEN Outcome(Rejected("Wallet not connected"), {})
    ELSE Outcome(Resolved(""), {})

\* part_004: signMessage(message)
UnifiedSignMessage(message) ==
    IF ~state.isConnected
    THEN Outcome(Rejected("Wallet not connected"), {})
    ELSE Outcome(Rejected("Use chain-specific signer"), {})

\* part_004: sendTransaction(to, value, data)
UnifiedSendTransaction(to, value, data) ==
    IF ~state.isConnected
    THEN Outcome(Rejected("Wallet not connected"), {})
    ELSE Outcome(Rejected("Use chain-specific transaction"), {})

(***************************************************************************)
(* The state machine.                                                      *)
(***************************************************************************)

Messages == {"hello"}

Transfers == { <<"0xTO", "1", NULL>> }

\* Commit a handler call's outcome.
Apply(out, op, arg, via) ==
    /\ state' = out.state
    /\ activeChain' = out.activeChain
    /\ evmConnected' = out.evmConnected
    /\ solanaConnected' = out.solanaConnected
    /\ tonConnected' = out.tonConnected
    /\ storage' = out.storage
    /\ lastOp' = [op |-> op, arg |-> arg, via |-> via, pre |-> Session,
                  result |-> out.result, callbacks |-> out.callbacks]

\* connect as the mounted provider implements it.
ConnectOutcome(chain) ==
    CASE provider = "WalletProvider" -> CoreConnect(chain)
      [] provider = "UnifiedWalletProvider" -> UnifiedConnect(chain)
      [] OTHER -> HookConnect(chain)

\* disconnect as the mounted provider implements it.
DisconnectOutcome ==
    CASE provider = "WalletProvider" -> CoreDisconnect
      [] provider = "UnifiedWalletProvider" -> UnifiedDisconnect
      [] OTHER -> HookDisconnect

\* No storage helper has been called directly.
NoStoreCall ==
    [op |-> "none", key |-> NULL, value |-> NULL, pre |-> EmptyStorage,
     threw |-> FALSE, returned |-> NULL]

StoreIdle == lastStore = NoStoreCall

\* No call sequence is being recorded or run again.
ReplayIdle == log = << >> /\ replay = 0

\* No call of a chain provider's connect or disconnect has been made.
NoAdapterCall == [op |-> "none", library |-> "none", result |-> Resolved("undefined")]

\* No chain provider is rendered.
AdapterIdle ==
    /\ adapter = NULL
    /\ adPhase = "none"
    /\ wallet = NULL
    /\ adState = [isConnected |-> FALSE, address |-> NULL, balance |-> NULL]
    /\ adLast = NoAdapterCall
    /\ balanceFetch = FALSE

\* The keys NearProvider and CosmosProvider keep in localStorage.
NcKeys == {"near_account_id", "near_public_key", "cosmos_connected"}

NcEmptyStorage == [k \in NcKeys |-> NULL]

\* useState initial value of NearProvider and of CosmosProvider.
NcInitialState == [isConnected |-> FALSE, address |-> NULL, publicKey |-> NULL]

NoNcCall == [op |-> "none", result |-> Resolved("undefined")]

\* Neither NearProvider nor CosmosProvider is rendered.
NearCosmosIdle ==
    /\ ncProvider = NULL
    /\ ncPhase = "none"
    /\ ncStorage = NcEmptyStorage
    /\ ncState = NcInitialState
    /\ keplr = NULL
    /\ handshake = NULL
    /\ ncLast = NoNcCall

\* policy: null.
NoPolicy ==
    [present |-> FALSE, maxAmount |-> 0, dailyLimit |-> 0, allowedTokens |-> {},
     enabled |-> FALSE]

\* An amount string: its whole units, and whether it carries a further
\* fraction too small for a double of that size to hold
\* ('10.0000000000000001' is units 10 with such a fraction).
NoAmount == [units |-> 0, dust |-> FALSE]

NoAgentCall ==
    [op |-> "none", amount |-> NoAmount, token |-> NULL, policy |-> NoPolicy,
     sentBefore |-> 0, result |-> Resolved("undefined")]

\* No agent wallet provider is rendered.
AgentIdle ==
    /\ agProvider = NULL
    /\ agDefaultPolicy = NoPolicy
    /\ agState = [isInitialized |-> FALSE, address |-> NULL, policy |-> NoPolicy]
    /\ walletClient = FALSE
    /\ sentToday = 0
    /\ agLast = NoAgentCall

NoPasskeyCall == [op |-> "none", arg |-> NULL, result |-> Resolved("undefined")]

\* No PasskeyProvider is rendered.
PasskeyIdle ==
    /\ pkState = [isRegistered |-> FALSE, isSupported |-> FALSE, credentials |-> << >>]
    /\ pkRegistering = 0
    /\ pkLast = NoPasskeyCall

MaxInFlight == 2

NoPaymasterCall == [status |-> "none", error |-> NULL]

\* No PaymasterProvider is rendered.
PaymasterIdle ==
    /\ pmAddress = NULL
    /\ pmSignFn = FALSE
    /\ isSending = FALSE
    /\ pmCalls = [c \in 1..MaxInFlight |-> "idle"]
    /\ pmLast = NoPaymasterCall

Running == [kind |-> "running", success |-> FALSE, error |-> [at |-> 0, message |-> NULL],
            hashes |-> << >>]

\* No batch is under way.
BatchIdle ==
    /\ btActions = << >>
    /\ btIndex = 0
    /\ btSent = << >>
    /\ btHashes = << >>
    /\ btOutcome = Running

MaxPaying == 2

\* invoice: null.
NoInvoice == [id |-> NULL, status |-> NULL]

NotPaying == [inv |-> NULL, at |-> "idle", signed |-> FALSE]

NoX402Call == [kind |-> "none", inv |-> NULL, at |-> "idle"]

\* No X402Provider is rendered.
X402Idle ==
    /\ invoice = NoInvoice
    /\ isProcessing = FALSE
    /\ x4Error = NULL
    /\ x4Created = 0
    /\ x4Pays = [c \in 1..MaxPaying |-> NotPaying]
    /\ x4Sent = {}
    /\ x4Failed = {}
    /\ x4Last = NoX402Call

ExtraIdle == NearCosmosIdle /\ AgentIdle /\ PasskeyIdle /\ PaymasterIdle /\ BatchIdle /\ X402Idle


\* The session before its provider's first effects have run.
SessionInit ==
    /\ phase = "rendered"
    /\ state = InitialState
    /\ activeChain = NULL
    /\ evmConnected = FALSE
    /\ solanaConnected = FALSE
    /\ tonConnected = FALSE
    /\ storage = EmptyStorage
    /\ lastOp = NoOp(EmptyStorage)
    /\ effectConnects = 0

Init ==
    /\ provider \in Providers
    /\ env \in Envs
    /\ helperBound \in BOOLEAN
    /\ autoConnect \in BOOLEAN
    /\ defaultChain \in ChainType \cup {NULL}
    /\ SessionInit
    /\ StoreIdle
    /\ ReplayIdle
    /\ ExtraIdle
    /\ AdapterIdle

\* part_004's two mount effects in order: the isConnected update is queued
\* first, connect(savedChain)'s updates after it.
UnifiedMountConnect(savedChain) ==
    LET out == UnifiedConnect(savedChain)
    IN  [out EXCEPT !.state = IsConnectedEffect(out.state, evmConnected,
                                                solanaConnected, tonConnected)]

\* The effects of the first commit: part_004's isConnected effect, then the
\* auto-connect effect.  WalletProvider reads the address key with a direct
\* localStorage?.getItem, which throws out of the effect where localStorage is
\* unusable; unified/index.tsx has no effect at all.
MountEffects ==
    /\ phase = "rendered"
    /\ UNCHANGED config
    /\ CASE provider = "WalletProvider" /\ autoConnect /\ LocalStorageThrows ->
                /\ phase' = "crashed"
                /\ UNCHANGED <<state, activeChain, evmConnected, solanaConnected,
                               tonConnected, storage, lastOp, effectConnects>>
         [] provider = "WalletProvider" /\ autoConnect /\ ~LocalStorageThrows
                /\ storage[AddressKey] # NULL ->
                /\ phase' = "mounted"
                /\ Apply(CoreConnect(NULL), "connect", <<NULL>>, "autoConnect")
                /\ effectConnects' = effectConnects + 1
         [] provider = "UnifiedWalletProvider" /\ autoConnect
                /\ getStorageItem(ChainKey) # NULL ->
                /\ phase' = "mounted"
                /\ Apply(UnifiedMountConnect(getStorageItem(ChainKey)), "connect",
                         <<getStorageItem(ChainKey)>>, "autoConnect")
                /\ effectConnects' = effectConnects + 1
         [] provider = "UnifiedWalletProvider" ->
                /\ phase' = "mounted"
                /\ state' = IsConnectedEffect(state, evmConnected, solanaConnected,
                                              tonConnected)
                /\ UNCHANGED <<activeChain, evmConnected, solanaConnected,
                               tonConnected, storage, lastOp, effectConnects>>
         [] OTHER ->
                /\ phase' = "mounted"
                /\ UNCHANGED <<state, activeChain, evmConnected, solanaConnected,
                               tonConnected, storage, lastOp, effectConnects>>

Mount == MountEffects /\ UNCHANGED outside

\* The page is loaded again: React state starts over, localStorage stays.
Reload ==
    /\ phase \in {"mounted", "crashed"}
    /\ phase' = "rendered"
    /\ state' = InitialState
    /\ activeChain' = NULL
    /\ evmConnected' = FALSE
    /\ solanaConnected' = FALSE
    /\ tonConnected' = FALSE
    /\ lastOp' = NoOp(storage)
    /\ effectConnects' = 0
    /\ UNCHANGED <<config, storage, outside>>

\* The bound on the connect calls of the auto-connect effect in one page load.
MaxEffectConnects == 2

\* The parent renders the provider again and passes a new onError function
\* (an inline arrow): connect = useCallback(..., [.., onError]) gets a new
\* identity, which is a dependency of the auto-connect effect, so the effect
\* runs again.  part_004's isConnected effect depends on the three flags only.
Rerender ==
    /\ phase = "mounted"
    /\ provider # "UnifiedWalletHook"
    /\ UNCHANGED <<config, phase, outside>>
    /\ CASE provider = "WalletProvider" /\ autoConnect /\ storage[AddressKey] # NULL ->
                /\ effectConnects < MaxEffectConnects
                /\ Apply(CoreConnect(NULL), "connect", <<NULL>>, "effectRerun")
                /\ effectConnects' = effectConnects + 1
         [] provider = "UnifiedWalletProvider" /\ autoConnect
                /\ getStorageItem(ChainKey) # NULL ->
                /\ effectConnects < MaxEffectConnects
                /\ Apply(UnifiedConnect(getStorageItem(ChainKey)), "connect",
                         <<getStorageItem(ChainKey)>>, "effectRerun")
                /\ effectConnects' = effectConnects + 1
         [] OTHER ->
                UNCHANGED <<state, activeChain, evmConnected, solanaConnected,
                            tonConnected, storage, lastOp, effectConnects>>

connect(chain) ==
    /\ phase = "mounted"
    /\ Apply(ConnectOutcome(chain), "connect", <<chain>>, "call")
    /\ UNCHANGED <<config, phase, effectConnects, outside>>

disconnect ==
    /\ phase = "mounted"
    /\ Apply(DisconnectOutcome, "disconnect", << >>, "call")
    /\ UNCHANGED <<config, phase, effectConnects, outside>>

\* switchChain(chainId) of WalletProvider and part_004.
switchChain(chainId) ==
    /\ phase = "mounted"
    /\ provider # "UnifiedWalletHook"
    /\ Apply(SwitchChainId(chainId), "switchChain", <<chainId>>, "call")
    /\ UNCHANGED <<config, phase, effectConnects, outside>>

\* switchChain(chain) of unified/index.tsx.
switchChainFamily(chain) ==
    /\ phase = "mounted"
    /\ provider = "UnifiedWalletHook"
    /\ Apply(HookSwitchChain(chain), "switchChain", <<chain>>, "call")
    /\ UNCHANGED <<config, phase, effectConnects, outside>>

\* unified/index.tsx offers neither signMessage nor sendTransaction.
signMessage(message) ==
    /\ phase = "mounted"
    /\ provider # "UnifiedWalletHook"
    /\ Apply(IF provider = "WalletProvider" THEN CoreSignMessage(message)
             ELSE UnifiedSignMessage(message),
             "signMessage", <<message>>, "call")
    /\ UNCHANGED <<config, phase, effectConnects, outside>>

sendTransaction(to, value, data) ==
    /\ phase = "mounted"
    /\ provider # "UnifiedWalletHook"
    /\ Apply(IF provider = "WalletProvider" THEN CoreSendTransaction(to, value, data)
             ELSE UnifiedSendTransaction(to, value, data),
             "sendTransaction", <<to, value, data>>, "call")
    /\ UNCHANGED <<config, phase, effectConnects, outside>>

Next ==
    \/ Mount
    \/ Reload
    \/ Rerender
    \/ \E chain \in ChainType \cup {NULL} : connect(chain)
    \/ disconnect
    \/ \E chainId \in ChainIds : switchChain(chainId)
    \/ \E chain \in ChainType : switchChainFamily(chain)
    \/ \E message \in Messages : signMessage(message)
    \/ \E t \in Transfers : sendTransaction(t[1], t[2], t[3])

Spec == Init /\ [][Next]_vars

(***************************************************************************)
(* The storage helpers of core/adapter.ts called directly (they are        *)
(* exported from the package).                                             *)
(***************************************************************************)

\* The session's variables but the persisted keys.
sessionReact == <<phase, state, activeChain, evmConnected, solanaConnected,
                  tonConnected, lastOp, effectConnects>>

\* The strings the package stores: a chain family, an address.
StoreValues == ChainType \cup {"0xA11CE"}

\* Without a window there is no localStorage; a localStorage whose calls throw
\* (blocked by the browser) may hold what was stored before it was blocked.
StoreInit ==
    /\ provider = "UnifiedWalletProvider"
    /\ env \in Envs
    /\ helperBound = TRUE
    /\ autoConnect = FALSE
    /\ defaultChain = NULL
    /\ phase = "rendered"
    /\ state = InitialState
    /\ activeChain = NULL
    /\ evmConnected = FALSE
    /\ solanaConnected = FALSE
    /\ tonConnected = FALSE
    /\ storage \in IF env = "noWindow" THEN {EmptyStorage}
                   ELSE [StorageKeys -> StoreValues \cup {NULL}]
    /\ lastOp = NoOp(storage)
    /\ effectConnects = 0
    /\ StoreIdle
    /\ ReplayIdle
    /\ ExtraIdle
    /\ AdapterIdle

\* A helper has been called and has ended as r.
StoreCall(op, key, value, r) ==
    /\ lastStore' = [op |-> op, key |-> key, value |-> value, pre |-> storage,
                     threw |-> r.threw, returned |-> r.value]
    /\ storage' = r.storage
    /\ UNCHANGED <<config, sessionReact, replayVars, adapterVars, extraVars>>

CallGetStorageItem(key) ==
    /\ key \in StorageKeys
    /\ StoreCall("getStorageItem", key, NULL, GetStorageItemCall(storage, key))

CallSetStorageItem(key, value) ==
    /\ key \in StorageKeys
    /\ StoreCall("setStorageItem", key, value, SetStorageItemCall(storage, key, value))

CallRemoveStorageItem(key) ==
    /\ key \in StorageKeys
    /\ StoreCall("removeStorageItem", key, NULL, RemoveStorageItemCall(storage, key))

StoreNext ==
    \/ \E key \in StorageKeys : CallGetStorageItem(key)
    \/ \E key \in StorageKeys, value \in StoreValues : CallSetStorageItem(key, value)
    \/ \E key \in StorageKeys : CallRemoveStorageItem(key)

SpecStore == StoreInit /\ [][StoreNext]_vars

(***************************************************************************)
(* One sequence of calls made twice: a first run where localStorage is     *)
(* unusable, recorded in log, then the same calls from a fresh page where  *)
(* localStorage is available and empty.                                    *)
(***************************************************************************)

\* The bound on the handler calls of a recorded run (the mount comes first).
MaxCalls == 2

MountCall == [op |-> "mount", arg |-> << >>]

\* The calls a caller can make through the context value.
Calls ==
    {[op |-> "connect", arg |-> <<chain>>] : chain \in ChainType \cup {NULL}}
    \cup {[op |-> "disconnect", arg |-> << >>]}
    \cup {[op |-> "switchChain", arg |-> <<chainId>>] : chainId \in ChainIds}
    \cup {[op |-> "signMessage", arg |-> <<message>>] : message \in Messages}
    \cup {[op |-> "sendTransaction", arg |-> t] : t \in Transfers}

\* A call as the mounted provider (WalletProvider or part_004) implements it.
CallOutcome(c) ==
    CASE c.op = "connect" -> ConnectOutcome(c.arg[1])
      [] c.op = "disconnect" -> DisconnectOutcome
      [] c.op = "switchChain" -> SwitchChainId(c.arg[1])
      [] c.op = "signMessage" ->
            IF provider = "WalletProvider" THEN CoreSignMessage(c.arg[1])
            ELSE UnifiedSignMessage(c.arg[1])
      [] OTHER ->
            IF provider = "WalletProvider"
            THEN CoreSendTransaction(c.arg[1], c.arg[2], c.arg[3])
            ELSE UnifiedSendTransaction(c.arg[1], c.arg[2], c.arg[3])

\* What the application sees after a call: the context value (state, chain),
\* what the call returned and the callback props it invoked; not localStorage.
Shown ==
    [phase |-> phase, state |-> state, activeChain |-> activeChain,
     evmConnected |-> evmConnected, solanaConnected |-> solanaConnected,
     tonConnected |-> tonConnected, result |-> lastOp.result,
     callbacks |-> lastOp.callbacks]

ReplayInit ==
    /\ provider \in {"WalletProvider", "UnifiedWalletProvider"}
    /\ env \in {"noWindow", "throws"}
    /\ helperBound \in BOOLEAN
    /\ autoConnect \in BOOLEAN
    /\ defaultChain \in ChainType \cup {NULL}
    /\ SessionInit
    /\ StoreIdle
    /\ ReplayIdle
    /\ ExtraIdle
    /\ AdapterIdle

\* The step c of a run: the first effects, or a handler call.
RunStep(c) ==
    IF c.op = "mount"
    THEN MountEffects
    ELSE /\ phase = "mounted"
         /\ Apply(CallOutcome(c), c.op, c.arg, "call")
         /\ UNCHANGED <<config, phase, effectConnects>>

RecordMount ==
    /\ replay = 0
    /\ log = << >>
    /\ RunStep(MountCall)
    /\ log' = Append(log, [call |-> MountCall, shown |-> Shown'])
    /\ UNCHANGED <<replay, storeVars, adapterVars, extraVars>>

RecordCall(c) ==
    /\ replay = 0
    /\ log # << >>
    /\ Len(log) < 1 + MaxCalls
    /\ RunStep(c)
    /\ log' = Append(log, [call |-> c, shown |-> Shown'])
    /\ UNCHANGED <<replay, storeVars, adapterVars, extraVars>>

\* A fresh page with the same props, localStorage available and empty.
StartSecondRun ==
    /\ replay = 0
    /\ log # << >>
    /\ env' = "available"
    /\ phase' = "rendered"
    /\ state' = InitialState
    /\ activeChain' = NULL
    /\ evmConnected' = FALSE
    /\ solanaConnected' = FALSE
    /\ tonConnected' = FALSE
    /\ storage' = EmptyStorage
    /\ lastOp' = NoOp(EmptyStorage)
    /\ effectConnects' = 0
    /\ replay' = 1
    /\ UNCHANGED <<provider, helperBound, autoConnect, defaultChain, log,
                   storeVars, adapterVars, extraVars>>

\* The second run makes the next recorded call.
ReplayCall ==
    /\ replay \in 1..Len(log)
    /\ RunStep(log[replay].call)
    /\ replay' = replay + 1
    /\ UNCHANGED <<log, storeVars, adapterVars, extraVars>>

ReplayNext ==
    \/ RecordMount
    \/ \E c \in Calls : RecordCall(c)
    \/ StartSecondRun
    \/ ReplayCall

SpecReplay == ReplayInit /\ [][ReplayNext]_vars

(***************************************************************************)
(* The chain providers: TonProvider (src/src/ton/index.ts), SolanaProvider *)
(* (src/src/solana/index.ts), EvmProvider (src/unnamed/part_008).  Each    *)
(* wraps a wallet library, which holds the account.                        *)
(***************************************************************************)

Adapters == {"ton", "solana", "evm"}

\* The accounts a wallet can hand over.
Accounts == {"addr1", "addr2"}

\* What a balance query can come back with.
Balances == {"0", "1.5"}

\* SolanaProvider and EvmProvider keep no connection state of their own:
\* isConnected and address are read from the library's hooks at each render.
\* SolanaProvider's balance effect sets null at once when the address is
\* gone and otherwise keeps the old balance until fetchBalance() resolves;
\* EvmProvider's useBalance has no data for an address it has not queried.
Mirror(w) ==
    [isConnected |-> w # NULL, address |-> w,
     balance |-> IF w # NULL /\ adapter = "solana" THEN adState.balance ELSE NULL]

\* A change of the address starts a balance query; in EvmProvider an address
\* that is gone disables the query, in SolanaProvider a query under way goes on.
FetchAfter(w) ==
    IF w = wallet THEN balanceFetch
    ELSE IF w # NULL THEN TRUE
    ELSE IF adapter = "solana" THEN balanceFetch ELSE FALSE

\* TonProvider: useState(false), useState(null), useState(null)
TonInitialState == [isConnected |-> FALSE, address |-> NULL, balance |-> NULL]

\* The 'change' listener with the address left in place when the wallet goes.
TonOnChange_KeepsAddress(w) ==
    IF w # NULL THEN [isConnected |-> TRUE, address |-> w, balance |-> NULL]
    ELSE [isConnected |-> FALSE, address |-> adState.address, balance |-> NULL]

\* TonProvider's 'change' listener, given the wallet the library reports.
TonOnChange(w) ==
    IF w # NULL THEN [isConnected |-> TRUE, address |-> w, balance |-> NULL]
    ELSE [isConnected |-> FALSE, address |-> NULL, balance |-> NULL]

\* How the library's own disconnect can end.  EvmProvider calls the
\* disconnect of useDisconnect, which returns at once and reports a failure
\* through the hook, not through a rejection.
LibraryDisconnectOutcomes ==
    IF adapter = "evm" THEN {"resolves"} ELSE {"resolves", "rejects"}

\* How connecting can end: ton.getWallets() may offer no wallet; the connect
\* of useConnect (EVM) returns at once.
LibraryConnectOutcomes ==
    CASE adapter = "ton" -> {"resolves", "rejects", "noWallet"}
      [] adapter = "solana" -> {"resolves", "rejects"}
      [] OTHER -> {"resolves"}

\* try { await <library call> } catch (error) { console.error(..); throw error }
Rethrow(library) ==
    IF library = "resolves" THEN Resolved("undefined")
    ELSE IF library = "noWallet" THEN Rejected("No wallet found")
    ELSE Rejected("library error")

\* A call whose await has not come back yet.
Pending == [kind |-> "pending", value |-> NULL]

CallInFlight == adLast.result.kind = "pending"

outsideAdapter == <<config, sessionReact, storage, storeVars, replayVars, extraVars>>

AdapterInit ==
    /\ provider = "UnifiedWalletProvider"
    /\ env = "available"
    /\ helperBound = TRUE
    /\ autoConnect = FALSE
    /\ defaultChain = NULL
    /\ SessionInit
    /\ StoreIdle
    /\ ReplayIdle
    /\ ExtraIdle
    /\ adapter \in Adapters
    /\ adPhase = "rendered"
    /\ wallet = NULL
    /\ adState = TonInitialState
    /\ adLast = NoAdapterCall
    /\ balanceFetch = FALSE

\* The first effect: TonProvider subscribes to 'change' and checks ton.account.
AdapterMount ==
    /\ adPhase = "rendered"
    /\ adPhase' = "mounted"
    /\ adState' = IF adapter = "ton"
                  THEN IF wallet # NULL
                       THEN [adState EXCEPT !.isConnected = TRUE, !.address = wallet]
                       ELSE adState
                  ELSE Mirror(wallet)
    /\ balanceFetch' = (adapter # "ton" /\ wallet # NULL)
    /\ UNCHANGED <<adapter, wallet, adLast, outsideAdapter>>

\* The wallet connects, switches account or disconnects on its own side (a
\* restored session, the user acting in the wallet, the approval of a
\* connection request).
WalletChange(w) ==
    /\ w # wallet
    /\ wallet' = w
    /\ adState' = IF adapter = "ton"
                  THEN IF adPhase = "mounted" THEN TonOnChange(w) ELSE adState
                  ELSE Mirror(w)
    /\ balanceFetch' = (adapter # "ton" /\ adPhase = "mounted" /\ FetchAfter(w))
    /\ UNCHANGED <<adapter, adPhase, adLast, outsideAdapter>>

\* The balance query comes back: fetchBalance().then(setBalance) in
\* SolanaProvider (null when the query failed), balanceData in EvmProvider.
BalanceFetched(b) ==
    /\ balanceFetch
    /\ balanceFetch' = FALSE
    /\ adState' = [adState EXCEPT !.balance = b]
    /\ UNCHANGED <<adapter, adPhase, wallet, adLast, outsideAdapter>>

\* connect() / disconnect() is called and reaches its await.
AdapterCall(op) ==
    /\ adPhase = "mounted"
    /\ ~CallInFlight
    /\ adLast' = [op |-> op, library |-> "pending", result |-> Pending]
    /\ UNCHANGED <<adapter, adPhase, wallet, adState, balanceFetch, outsideAdapter>>

\* The library call of connect() settles.  The connection itself arrives from
\* the wallet later (TON, EVM); the Solana adapter's connect resolves once the
\* wallet is connected.
AdapterConnectSettles(library, w) ==
    /\ CallInFlight
    /\ adLast.op = "connect"
    /\ library \in LibraryConnectOutcomes
    /\ wallet' = IF adapter = "solana" /\ library = "resolves" /\ wallet = NULL
                 THEN w ELSE wallet
    /\ adState' = IF adapter = "ton" THEN adState ELSE Mirror(wallet')
    /\ balanceFetch' = (adapter # "ton" /\ FetchAfter(wallet'))
    /\ adLast' = [op |-> "connect", library |-> library, result |-> Rethrow(library)]
    /\ UNCHANGED <<adapter, adPhase, outsideAdapter>>

\* The library call of disconnect() settles.  When it resolves the account is
\* gone (TonProvider's listener and the three setters after the await both
\* clear the state); when it rejects nothing is cleared and the error is
\* thrown on.
AdapterDisconnectSettles(library) ==
    /\ CallInFlight
    /\ adLast.op = "disconnect"
    /\ library \in LibraryDisconnectOutcomes
    /\ wallet' = IF library = "resolves" THEN NULL ELSE wallet
    /\ adState' = IF adapter = "ton"
                  THEN IF library = "resolves" THEN TonOnChange(NULL) ELSE adState
                  ELSE Mirror(wallet')
    /\ balanceFetch' = (adapter # "ton" /\ FetchAfter(wallet'))
    /\ adLast' = [op |-> "disconnect", library |-> library, result |-> Rethrow(library)]
    /\ UNCHANGED <<adapter, adPhase, outsideAdapter>>

AdapterNext ==
    \/ AdapterMount
    \/ \E w \in Accounts \cup {NULL} : WalletChange(w)
    \/ \E b \in Balances \cup {NULL} : BalanceFetched(b)
    \/ \E op \in {"connect", "disconnect"} : AdapterCall(op)
    \/ \E library \in {"resolves", "rejects", "noWallet"}, w \in Accounts :
          AdapterConnectSettles(library, w)
    \/ \E library \in {"resolves", "rejects"} : AdapterDisconnectSettles(library)

SpecAdapter == AdapterInit /\ [][AdapterNext]_vars

(***************************************************************************)
(* NearProvider (src/src/near/index.ts, src/unnamed/part_006) and          *)
(* CosmosProvider (src/src/cosmos/index.ts).                               *)
(***************************************************************************)

NcProviders == {"NearProvider", "NearProvider006", "CosmosProvider"}

IsNear == ncProvider \in {"NearProvider", "NearProvider006"}

\* generateKeyPair().publicKey
NearPublicKey == "ed25519:ABC123..."

\* `tx_${Date.now()}`: a hash made up on the spot, of no transaction.
FabricatedHash == "tx_<Date.now()>"

notNearCosmos == <<config, sessionReact, storage, storeVars, replayVars, adapterVars, agentVars, passkeyVars, paymasterVars, batchVars, x402Vars>>

NearCosmosInit ==
    /\ provider = "UnifiedWalletProvider"
    /\ env = "available"
    /\ helperBound = TRUE
    /\ autoConnect = FALSE
    /\ defaultChain = NULL
    /\ SessionInit
    /\ StoreIdle
    /\ ReplayIdle
    /\ AdapterIdle
    /\ X402Idle
    /\ BatchIdle
    /\ PaymasterIdle
    /\ PasskeyIdle
    /\ AgentIdle
    /\ ncProvider \in NcProviders
    /\ ncPhase = "rendered"
    /\ ncStorage = NcEmptyStorage
    /\ ncState = NcInitialState
    /\ keplr \in IF ncProvider = "CosmosProvider" THEN Accounts \cup {NULL} ELSE {NULL}
    /\ handshake = NULL
    /\ ncLast = NoNcCall

\* What checkConnection sets when it takes the saved account for connected.
NearRestored ==
    [isConnected |-> TRUE, address |-> ncStorage["near_account_id"],
     publicKey |-> ncStorage["near_public_key"]]

\* The mount effect.  near/index.ts: connected when both keys are saved.
\* part_006: connected when the account id is saved and the RPC query of the
\* account's state answers (rpc); a failing query is caught and logged.
\* CosmosProvider's effect does nothing.
NcMount(rpc) ==
    /\ ncPhase = "rendered"
    /\ ncPhase' = "mounted"
    /\ ncState' =
          CASE ncProvider = "NearProvider"
                 /\ ncStorage["near_account_id"] # NULL
                 /\ ncStorage["near_public_key"] # NULL -> NearRestored
            [] ncProvider = "NearProvider006"
                 /\ ncStorage["near_account_id"] # NULL
                 /\ rpc = "answers" -> NearRestored
            [] OTHER -> ncState
    /\ UNCHANGED <<ncProvider, ncStorage, keplr, handshake, ncLast, notNearCosmos>>

\* The page is loaded again: React state starts over, localStorage stays.
NcReload ==
    /\ ncPhase = "mounted"
    /\ ncPhase' = "rendered"
    /\ ncState' = NcInitialState
    /\ handshake' = NULL
    /\ ncLast' = NoNcCall
    /\ UNCHANGED <<ncProvider, ncStorage, keplr, notNearCosmos>>

\* NearProvider.connect: the public key is stored and the browser leaves for
\* the wallet's login page.
NearConnect ==
    /\ ncPhase = "mounted"
    /\ IsNear
    /\ ncStorage' = [ncStorage EXCEPT !["near_public_key"] = NearPublicKey]
    /\ ncPhase' = "away"
    /\ ncLast' = [op |-> "connect", result |-> Resolved("undefined")]
    /\ UNCHANGED <<ncProvider, ncState, keplr, handshake, notNearCosmos>>

\* The wallet's login page sends the browser back, with the account the user
\* approved (or none).  The package reads and removes near_account_id but
\* never writes it: storing the approved account is left to the host page.
ReturnFromWallet(a) ==
    /\ ncPhase = "away"
    /\ ncPhase' = "rendered"
    /\ ncState' = NcInitialState
    /\ ncStorage' = IF a # NULL THEN [ncStorage EXCEPT !["near_account_id"] = a]
                   ELSE ncStorage
    /\ handshake' = a
    /\ ncLast' = NoNcCall
    /\ UNCHANGED <<ncProvider, keplr, notNearCosmos>>

\* CosmosProvider.connect: without window.keplr it throws; keplr.enable() is
\* approved or refused by the user; approved, getKey() gives the address.
CosmosConnect(approved) ==
    /\ ncPhase = "mounted"
    /\ ncProvider = "CosmosProvider"
    /\ UNCHANGED <<ncProvider, ncPhase, keplr, notNearCosmos>>
    /\ IF keplr = NULL
       THEN /\ ncLast' = [op |-> "connect", result |-> Rejected("Keplr wallet not installed")]
            /\ UNCHANGED <<ncState, ncStorage, handshake>>
       ELSE IF approved
       THEN /\ ncState' = [isConnected |-> TRUE, address |-> keplr, publicKey |-> "pubKey"]
            /\ ncStorage' = [ncStorage EXCEPT !["cosmos_connected"] = "true"]
            /\ handshake' = keplr
            /\ ncLast' = [op |-> "connect", result |-> Resolved("undefined")]
       ELSE /\ ncLast' = [op |-> "connect", result |-> Rejected("Request rejected")]
            /\ UNCHANGED <<ncState, ncStorage, handshake>>

\* disconnect of both providers: the keys removed, the state reset.
NcDisconnect ==
    /\ ncPhase = "mounted"
    /\ ncStorage' = IF IsNear
                   THEN [ncStorage EXCEPT !["near_account_id"] = NULL,
                                          !["near_public_key"] = NULL]
                   ELSE [ncStorage EXCEPT !["cosmos_connected"] = NULL]
    /\ ncState' = NcInitialState
    /\ ncLast' = [op |-> "disconnect", result |-> Resolved("undefined")]
    /\ UNCHANGED <<ncProvider, ncPhase, keplr, handshake, notNearCosmos>>

\* NearProvider.callMethod and sendNEAR: no transaction is built or sent.
NearSend(op) ==
    /\ ncPhase = "mounted"
    /\ IsNear
    /\ ncLast' = [op |-> op,
                  result |-> IF ncState.address = NULL
                             THEN Rejected("Not connected to NEAR")
                             ELSE Resolved(FabricatedHash)]
    /\ UNCHANGED <<ncProvider, ncPhase, ncStorage, ncState, keplr, handshake,
                   notNearCosmos>>

\* CosmosProvider.send: keplr.getSigner() is awaited (and its rejection thrown
\* on), the signer is not used, nothing is broadcast.
CosmosSend(signer) ==
    /\ ncPhase = "mounted"
    /\ ncProvider = "CosmosProvider"
    /\ ncLast' = [op |-> "send",
                  result |-> IF ncState.address = NULL \/ keplr = NULL
                             THEN Rejected("Not connected to Keplr")
                             ELSE IF signer = "rejects"
                             THEN Rejected("getSigner failed")
                             ELSE Resolved(FabricatedHash)]
    /\ UNCHANGED <<ncProvider, ncPhase, ncStorage, ncState, keplr, handshake,
                   notNearCosmos>>

NearCosmosNext ==
    \/ \E rpc \in {"answers", "fails"} : NcMount(rpc)
    \/ NcReload
    \/ NearConnect
    \/ \E a \in Accounts \cup {NULL} : ReturnFromWallet(a)
    \/ \E approved \in BOOLEAN : CosmosConnect(approved)
    \/ NcDisconnect
    \/ \E op \in {"callMethod", "sendNEAR"} : NearSend(op)
    \/ \E signer \in {"resolves", "rejects"} : CosmosSend(signer)

SpecNearCosmos == NearCosmosInit /\ [][NearCosmosNext]_vars

(***************************************************************************)
(* The agent wallet: AgentWalletProvider of src/src/agent/index.ts and     *)
(* AgentProvider of src/unnamed/part_000.  initialize, sendTransaction,    *)
(* transfer and updatePolicy are each one action; the one await of          *)
(* sendTransaction (walletClient.sendTransaction) is its last step, so its *)
(* outcome is an input of the action.                                      *)
(***************************************************************************)

AgentProviders == {"AgentWalletProvider", "AgentProvider"}

MaxUnits == 2

MaxSentToday == 4

Tokens == {"USDC", "DOGE"}

\* The amount strings a caller passes: whole units, with or without a
\* fraction below a double's precision.
Amounts == [units : 0..MaxUnits, dust : BOOLEAN]

\* interface AgentPolicy, with maxAmount and dailyLimit in whole units.
Policies ==
    [present : {TRUE}, maxAmount : {1, 2}, dailyLimit : {3},
     allowedTokens : {{"ETH", "USDC"}}, enabled : BOOLEAN]

\* parseFloat(value): the double nearest to the decimal string, which drops
\* a fraction below the double's precision.
ParseFloat(a) == a.units

\* parseEther(value): the exact number of wei, every digit kept.
ParseEther(a) == a

\* a || b || null on policy objects.
FirstPolicy(a, b) == IF a.present THEN a ELSE IF b.present THEN b ELSE NoPolicy

notAgent == <<config, sessionReact, storage, storeVars, replayVars, adapterVars, nearCosmosVars, passkeyVars, paymasterVars, batchVars, x402Vars>>

AgentInit ==
    /\ provider = "UnifiedWalletProvider"
    /\ env = "available"
    /\ helperBound = TRUE
    /\ autoConnect = FALSE
    /\ defaultChain = NULL
    /\ SessionInit
    /\ StoreIdle
    /\ ReplayIdle
    /\ AdapterIdle
    /\ X402Idle
    /\ BatchIdle
    /\ PaymasterIdle
    /\ PasskeyIdle
    /\ NearCosmosIdle
    /\ agProvider \in AgentProviders
    /\ agDefaultPolicy \in Policies \cup {NoPolicy}
    /\ agState = [isInitialized |-> FALSE, address |-> NULL, policy |-> agDefaultPolicy]
    /\ walletClient = FALSE
    /\ sentToday = 0
    /\ agLast = NoAgentCall

\* initialize(config).  agent/index.ts sets a made-up address and the policy.
\* part_000 awaits the chain's balance first: when that query fails the
\* error is thrown on and no state is set; otherwise the wallet client is
\* made when config.privateKey is given.
AgentInitialize(cfgPolicy, privateKey, rpc) ==
    /\ agProvider # NULL
    /\ IF agProvider = "AgentProvider" /\ rpc = "fails"
       THEN UNCHANGED <<agState, walletClient>>
       ELSE /\ agState' = [isInitialized |-> TRUE, address |-> "0xagent",
                           policy |-> FirstPolicy(cfgPolicy, agDefaultPolicy)]
            /\ walletClient' = IF agProvider = "AgentProvider" /\ privateKey
                               THEN TRUE ELSE walletClient
    /\ UNCHANGED <<agProvider, agDefaultPolicy, sentToday, agLast, notAgent>>

\* The policy check of sendTransaction (and of validateTransaction): only
\* policy.maxAmount is read.
PolicyCheck(policy, amount) ==
    (policy.present /\ policy.enabled) => ~(ParseFloat(amount) > policy.maxAmount)

\* sendTransaction(request) with request.value = amount (an absent value
\* is '0') and request.token = token.
SendTransaction(amount, token, library) ==
    IF ~agState.isInitialized \/ (agProvider = "AgentProvider" /\ agState.address = NULL)
    THEN Rejected("Wallet not initialized")
    ELSE IF ~PolicyCheck(agState.policy, amount)
    THEN Rejected("Amount exceeds max limit")
    ELSE IF agProvider = "AgentWalletProvider"
    THEN Resolved([hash |-> "0x<Date.now()>", status |-> "confirmed", value |-> amount])
    ELSE IF ~walletClient
    THEN Rejected("Private key required for transactions")
    ELSE IF library = "rejects"
    THEN Rejected("walletClient.sendTransaction failed")
    ELSE Resolved([hash |-> "0xhash", status |-> "pending", value |-> ParseEther(amount)])

\* A call of sendTransaction, or of transfer(to, amount, token), which is
\* sendTransaction({to, value: amount, token}).
AgentSend(op, amount, token, library) ==
    /\ agProvider # NULL
    /\ sentToday + amount.units <= MaxSentToday
    /\ LET result == SendTransaction(amount, token, library)
       IN  /\ agLast' = [op |-> op, amount |-> amount, token |-> token,
                         policy |-> agState.policy, sentBefore |-> sentToday,
                         result |-> result]
           /\ sentToday' = IF result.kind = "resolved"
                           THEN sentToday + amount.units ELSE sentToday
    /\ UNCHANGED <<agProvider, agDefaultPolicy, agState, walletClient, notAgent>>

\* updatePolicy(partial) with partial = {[field]: value}: merged into the
\* policy, and a null policy stays null.
AgentUpdatePolicy(field, value) ==
    /\ agProvider # NULL
    /\ agState' = [agState EXCEPT !.policy =
                       IF @.present THEN [@ EXCEPT ![field] = value] ELSE NoPolicy]
    /\ UNCHANGED <<agProvider, agDefaultPolicy, walletClient, sentToday, agLast, notAgent>>

AgentNext ==
    \/ \E cfgPolicy \in Policies \cup {NoPolicy}, privateKey \in BOOLEAN,
          rpc \in {"answers", "fails"} : AgentInitialize(cfgPolicy, privateKey, rpc)
    \/ \E op \in {"sendTransaction", "transfer"}, amount \in Amounts,
          token \in Tokens \cup {NULL}, library \in {"resolves", "rejects"} :
          AgentSend(op, amount, token, library)
    \/ \E enabled \in BOOLEAN : AgentUpdatePolicy("enabled", enabled)
    \/ \E maxAmount \in {1, 2} : AgentUpdatePolicy("maxAmount", maxAmount)

SpecAgent == AgentInit /\ [][AgentNext]_vars

(***************************************************************************)
(* PasskeyProvider of src/unnamed/part_003.  register awaits               *)
(* navigator.credentials.create and then queues a functional update;       *)
(* deleteCredential queues a functional update at once.                    *)
(***************************************************************************)

\* credential.id as the authenticator issues it.
CredentialIds == {"cred1", "cred2", "cred3"}

MaxRegistering == 2

RECURSIVE Filter(_, _)
\* credentials.filter(c => c.id !== credentialId)
Filter(credentials, credentialId) ==
    IF credentials = << >> THEN << >>
    ELSE IF Head(credentials) = credentialId
    THEN Filter(Tail(credentials), credentialId)
    ELSE <<Head(credentials)>> \o Filter(Tail(credentials), credentialId)

Ids(credentials) == {credentials[i] : i \in DOMAIN credentials}

\* The update deleteCredential queues: isRegistered is read off the list's
\* length before the filter.
DeleteUpdate(prev, credentialId) ==
    [prev EXCEPT !.credentials = Filter(prev.credentials, credentialId),
                 !.isRegistered = Len(prev.credentials) > 1]

\* The update register queues once the credential is made.
RegisterUpdate(prev, id) ==
    [prev EXCEPT !.isRegistered = TRUE,
                 !.credentials = Append(prev.credentials, id)]

notPasskey == <<config, sessionReact, storage, storeVars, replayVars, adapterVars, nearCosmosVars, agentVars, paymasterVars, batchVars, x402Vars>>

PasskeyInit ==
    /\ provider = "UnifiedWalletProvider"
    /\ env = "available"
    /\ helperBound = TRUE
    /\ autoConnect = FALSE
    /\ defaultChain = NULL
    /\ SessionInit
    /\ StoreIdle
    /\ ReplayIdle
    /\ AdapterIdle
    /\ X402Idle
    /\ BatchIdle
    /\ PaymasterIdle
    /\ NearCosmosIdle
    /\ AgentIdle
    /\ \E supported \in BOOLEAN :
           pkState = [isRegistered |-> FALSE, isSupported |-> supported,
                      credentials |-> << >>]
    /\ pkRegistering = 0
    /\ pkLast = NoPasskeyCall

\* register(username) up to its await: rejects when WebAuthn is missing.
RegisterCall ==
    /\ pkRegistering < MaxRegistering
    /\ IF ~pkState.isSupported
       THEN /\ pkLast' = [op |-> "register", arg |-> NULL,
                          result |-> Rejected("WebAuthn not supported")]
            /\ UNCHANGED pkRegistering
       ELSE /\ pkRegistering' = pkRegistering + 1
            /\ UNCHANGED pkLast
    /\ UNCHANGED <<pkState, notPasskey>>

\* navigator.credentials.create settles: with a credential of a new id, with
\* null, or with a rejection (the user cancelled).
RegisterSettles(outcome) ==
    /\ pkRegistering > 0
    /\ pkRegistering' = pkRegistering - 1
    /\ outcome \in CredentialIds => outcome \notin Ids(pkState.credentials)
    /\ IF outcome \in CredentialIds
       THEN /\ pkState' = RegisterUpdate(pkState, outcome)
            /\ pkLast' = [op |-> "register", arg |-> outcome, result |-> Resolved(outcome)]
       ELSE /\ pkLast' = [op |-> "register", arg |-> NULL,
                          result |-> IF outcome = NULL
                                     THEN Rejected("Failed to create credential")
                                     ELSE Rejected("NotAllowedError")]
            /\ UNCHANGED pkState
    /\ UNCHANGED notPasskey

\* deleteCredential(credentialId), with a stored id or one nobody issued.
DeleteCredential(credentialId) ==
    /\ pkState' = DeleteUpdate(pkState, credentialId)
    /\ pkLast' = [op |-> "deleteCredential", arg |-> credentialId,
                  result |-> Resolved("undefined")]
    /\ UNCHANGED <<pkRegistering, notPasskey>>

PasskeyNext ==
    \/ RegisterCall
    \/ \E outcome \in CredentialIds \cup {NULL, "rejects"} : RegisterSettles(outcome)
    \/ \E credentialId \in CredentialIds \cup {"unknown"} : DeleteCredential(credentialId)

SpecPasskey == PasskeyInit /\ [][PasskeyNext]_vars

(***************************************************************************)
(* PaymasterProvider of src/src/paymaster/index.ts.  sendUserOperation     *)
(* awaits the client five times inside its try block; a call stands at the *)
(* await it is waiting for.                                                *)
(***************************************************************************)

\* The awaits of sendUserOperation in order; signFn is skipped when the prop
\* is not given.
NextAwait(at) ==
    CASE at = "getNonce" -> "estimateGas"
      [] at = "estimateGas" -> "getPaymasterData"
      [] at = "getPaymasterData" -> IF pmSignFn THEN "signFn" ELSE "sendUserOperation"
      [] at = "signFn" -> "sendUserOperation"
      [] OTHER -> "settled"

InFlight == {c \in 1..MaxInFlight : pmCalls[c] # "idle"}

notPaymaster == <<config, sessionReact, storage, storeVars, replayVars, adapterVars, nearCosmosVars, agentVars, passkeyVars, batchVars, x402Vars>>

PaymasterInit ==
    /\ provider = "UnifiedWalletProvider"
    /\ env = "available"
    /\ helperBound = TRUE
    /\ autoConnect = FALSE
    /\ defaultChain = NULL
    /\ SessionInit
    /\ StoreIdle
    /\ ReplayIdle
    /\ AdapterIdle
    /\ X402Idle
    /\ BatchIdle
    /\ NearCosmosIdle
    /\ AgentIdle
    /\ PasskeyIdle
    /\ pmAddress \in {NULL, "0xsender"}
    /\ pmSignFn \in BOOLEAN
    /\ isSending = FALSE
    /\ pmCalls = [c \in 1..MaxInFlight |-> "idle"]
    /\ pmLast = NoPaymasterCall

\* sendUserOperation(options) up to its first await: without an address it
\* returns a failed result and touches nothing; otherwise setIsSending(true).
SendUserOperation(c) ==
    /\ pmCalls[c] = "idle"
    /\ IF pmAddress = NULL
       THEN /\ pmLast' = [status |-> "failed", error |-> "Wallet address required"]
            /\ UNCHANGED <<isSending, pmCalls>>
       ELSE /\ isSending' = TRUE
            /\ pmCalls' = [pmCalls EXCEPT ![c] = "getNonce"]
            /\ UNCHANGED pmLast
    /\ UNCHANGED <<pmAddress, pmSignFn, notPaymaster>>

\* The await a call stands at resolves: the call moves to its next await, or
\* returns the client's result and runs the finally block.
AwaitResolves(c) ==
    /\ pmCalls[c] # "idle"
    /\ pmCalls' = [pmCalls EXCEPT ![c] =
                       IF NextAwait(@) = "settled" THEN "idle" ELSE NextAwait(@)]
    /\ IF NextAwait(pmCalls[c]) = "settled"
       THEN /\ isSending' = FALSE    \* finally { setIsSending(false) }
            /\ pmLast' = [status |-> "pending", error |-> NULL]
       ELSE UNCHANGED <<isSending, pmLast>>
    /\ UNCHANGED <<pmAddress, pmSignFn, notPaymaster>>

\* The await a call stands at rejects: the catch block returns a failed
\* result and the finally block runs.
AwaitRejects(c) ==
    /\ pmCalls[c] # "idle"
    /\ pmCalls' = [pmCalls EXCEPT ![c] = "idle"]
    /\ isSending' = FALSE    \* finally { setIsSending(false) }
    /\ pmLast' = [status |-> "failed", error |-> "error.message"]
    /\ UNCHANGED <<pmAddress, pmSignFn, notPaymaster>>

PaymasterNext ==
    \/ \E c \in 1..MaxInFlight : SendUserOperation(c)
    \/ \E c \in 1..MaxInFlight : AwaitResolves(c)
    \/ \E c \in 1..MaxInFlight : AwaitRejects(c)

SpecPaymaster == PaymasterInit /\ [][PaymasterNext]_vars

(***************************************************************************)
(* AgentActions.batch of src/src/agent/actions.ts (the class at line 385). *)
(* The for loop awaits one action at a time: one action of the model per   *)
(* iteration.  sendTransaction is the function given to the constructor;   *)
(* how it ends for an action is part of the input.                         *)
(***************************************************************************)

MaxActions == 3

\* How the constructor's sendTransaction can end: a result with a hash, a
\* successful result without one, an unsuccessful result, a rejection.
SendOutcomes == {"hash", "noHash", "unsuccessful", "rejects"}

\* The entries of the list: TransferParams (token known to TOKEN_ADDRESSES
\* or not), CallParams, ApproveParams, and SwapParams, which batch skips.
BatchActions ==
    [kind : {"transfer"}, token : {"USDC", "XYZ"}, send : SendOutcomes]
        \cup [kind : {"call", "approve"}, token : {"USDC"}, send : SendOutcomes]
        \cup [kind : {"swap"}, token : {"USDC"}, send : {"hash"}]

NoError == [at |-> 0, message |-> NULL]

\* The ActionResult sendTransaction resolves with for the action at i.
SendResult(i, send) ==
    CASE send = "hash" -> [success |-> TRUE, txHash |-> i, error |-> NoError]
      [] send = "noHash" -> [success |-> TRUE, txHash |-> 0, error |-> NoError]
      [] OTHER -> [success |-> FALSE, txHash |-> 0,
                   error |-> [at |-> i, message |-> "result.error"]]

\* catch (error) { return { success: false, error: error.message } }
Caught(i, message) ==
    [success |-> FALSE, txHash |-> 0, error |-> [at |-> i, message |-> message]]

\* Whether the method batch picks for the action reaches sendTransaction:
\* transfer and approve throw before it for a token outside TOKEN_ADDRESSES.
Sends(action) ==
    /\ action.kind # "swap"
    /\ action.kind \in {"transfer", "approve"} => action.token # "XYZ"

\* Whether the awaited method rejects: call has no try block.
Throws(action) == action.kind = "call" /\ action.send = "rejects"

\* The result of this.transfer / this.call / this.approve for the action at i.
MethodResult(i, action) ==
    IF ~Sends(action) THEN Caught(i, "Unknown token")
    ELSE IF action.send = "rejects" THEN Caught(i, "error.message")
    ELSE SendResult(i, action.send)

\* else if (!result.success) return, taken as never leaving the loop.
Stops_Never(result) == FALSE

\* else if (!result.success) return { success: false, error: result.error }
Stops(result) == ~result.success

notBatch == <<config, sessionReact, storage, storeVars, replayVars, adapterVars, nearCosmosVars, agentVars, passkeyVars, paymasterVars, x402Vars>>

RECURSIVE Lists(_)
\* The lists of at most n actions.
Lists(n) ==
    IF n = 0 THEN {<< >>}
    ELSE LET shorter == Lists(n - 1)
         IN  shorter \cup {Append(l, a) : l \in {s \in shorter : Len(s) = n - 1},
                                           a \in BatchActions}

BatchInit ==
    /\ provider = "UnifiedWalletProvider"
    /\ env = "available"
    /\ helperBound = TRUE
    /\ autoConnect = FALSE
    /\ defaultChain = NULL
    /\ SessionInit
    /\ StoreIdle
    /\ ReplayIdle
    /\ AdapterIdle
    /\ X402Idle
    /\ NearCosmosIdle
    /\ AgentIdle
    /\ PasskeyIdle
    /\ PaymasterIdle
    /\ btActions \in Lists(MaxActions)
    /\ btIndex = 1
    /\ btSent = << >>
    /\ btHashes = << >>
    /\ btOutcome = Running

\* One iteration of the for loop, for the action at btIndex.
BatchIteration ==
    /\ btOutcome.kind = "running"
    /\ btIndex <= Len(btActions)
    /\ LET action == btActions[btIndex]
           result == MethodResult(btIndex, action)
       IN  /\ btSent' = IF Sends(action) THEN Append(btSent, btIndex) ELSE btSent
           /\ IF action.kind = "swap"
              THEN UNCHANGED <<btHashes, btOutcome>>
              ELSE IF Throws(action)
              THEN /\ btOutcome' = [Running EXCEPT !.kind = "rejected",
                                        !.error = [at |-> btIndex, message |-> "error"]]
                   /\ UNCHANGED btHashes
              ELSE IF result.success /\ result.txHash # 0
              THEN /\ btHashes' = Append(btHashes, result.txHash)
                   /\ UNCHANGED btOutcome
              ELSE IF Stops(result)
              THEN /\ btOutcome' = [Running EXCEPT !.kind = "returned",
                                        !.error = result.error]
                   /\ UNCHANGED btHashes
              ELSE UNCHANGED <<btHashes, btOutcome>>
    /\ btIndex' = btIndex + 1
    /\ UNCHANGED <<btActions, notBatch>>

\* The loop is through: return { success: true, data: { hashes } }
BatchReturns ==
    /\ btOutcome.kind = "running"
    /\ btIndex > Len(btActions)
    /\ btOutcome' = [kind |-> "returned", success |-> TRUE, error |-> NoError,
                     hashes |-> btHashes]
    /\ UNCHANGED <<btActions, btIndex, btSent, btHashes, notBatch>>

BatchNext ==
    \/ BatchIteration
    \/ BatchReturns

SpecBatch == BatchInit /\ [][BatchNext]_vars

(***************************************************************************)
(* X402Provider of src/prompts/codex-prompts.md.  payInvoice awaits signFn *)
(* and then sendTxFn; both are props, and how each ends is an input.  A    *)
(* call stands at the await it is waiting for.                             *)
(***************************************************************************)

MaxInvoices == 2

\* `inv_${Date.now()}_${Math.random()...}`: a new id each time.
InvoiceId(n) == IF n = 1 THEN "inv_1" ELSE IF n = 2 THEN "inv_2" ELSE "inv_3"

\* The invoices a caller can hand to payInvoice: the ones createInvoice
\* returned, and one made elsewhere.
Payable == {InvoiceId(n) : n \in 1..x4Created} \cup {"inv_elsewhere"}

InvoiceIds == {InvoiceId(n) : n \in 1..MaxInvoices} \cup {"inv_elsewhere"}

\* setInvoice(prev => ...) with the status set whatever invoice is current.
MarkInvoice_AnyId(prev, inv, status) ==
    IF prev.id # NULL THEN [prev EXCEPT !.status = status] ELSE prev

\* setInvoice(prev => prev?.id === inv.id ? { ...prev, status } : prev)
MarkInvoice(prev, inv, status) ==
    IF prev.id # NULL /\ prev.id = inv THEN [prev EXCEPT !.status = status] ELSE prev

notX402 == <<config, sessionReact, storage, storeVars, replayVars, adapterVars, nearCosmosVars, agentVars, passkeyVars, paymasterVars, batchVars>>

X402Init ==
    /\ provider = "UnifiedWalletProvider"
    /\ env = "available"
    /\ helperBound = TRUE
    /\ autoConnect = FALSE
    /\ defaultChain = NULL
    /\ SessionInit
    /\ StoreIdle
    /\ ReplayIdle
    /\ AdapterIdle
    /\ NearCosmosIdle
    /\ AgentIdle
    /\ PasskeyIdle
    /\ PaymasterIdle
    /\ BatchIdle
    /\ invoice = NoInvoice
    /\ isProcessing = FALSE
    /\ x4Error = NULL
    /\ x4Created = 0
    /\ x4Pays = [c \in 1..MaxPaying |-> NotPaying]
    /\ x4Sent = {}
    /\ x4Failed = {}
    /\ x4Last = NoX402Call

\* createInvoice(data): the new invoice, status 'pending', becomes current.
CreateInvoice ==
    /\ x4Created < MaxInvoices
    /\ x4Created' = x4Created + 1
    /\ invoice' = [id |-> InvoiceId(x4Created + 1), status |-> "pending"]
    /\ x4Last' = NoX402Call
    /\ UNCHANGED <<isProcessing, x4Error, x4Pays, x4Sent, x4Failed, notX402>>

\* payInvoice(inv) up to await signFn(message).
PayInvoice(c, inv) ==
    /\ x4Pays[c].at = "idle"
    /\ inv \in Payable
    /\ isProcessing' = TRUE
    /\ x4Error' = NULL
    /\ x4Pays' = [x4Pays EXCEPT ![c] = [inv |-> inv, at |-> "signFn", signed |-> FALSE]]
    /\ x4Last' = NoX402Call
    /\ UNCHANGED <<invoice, x4Created, x4Sent, x4Failed, notX402>>

\* signFn resolves: sendTxFn(inv.recipient, inv.price) is called.
SignResolves(c) ==
    /\ x4Pays[c].at = "signFn"
    /\ x4Pays' = [x4Pays EXCEPT ![c].at = "sendTxFn", ![c].signed = TRUE]
    /\ x4Last' = NoX402Call
    /\ UNCHANGED <<invoice, isProcessing, x4Error, x4Created, x4Sent, x4Failed, notX402>>

\* sendTxFn resolves: the invoice is marked paid when it is still the
\* current one, the call returns, finally { setIsProcessing(false) }.
SendTxResolves(c) ==
    /\ x4Pays[c].at = "sendTxFn"
    /\ invoice' = MarkInvoice(invoice, x4Pays[c].inv, "paid")
    /\ isProcessing' = FALSE
    /\ x4Sent' = x4Sent \cup {x4Pays[c].inv}
    /\ x4Last' = [kind |-> "resolved", inv |-> x4Pays[c].inv, at |-> "sendTxFn"]
    /\ x4Pays' = [x4Pays EXCEPT ![c] = NotPaying]
    /\ UNCHANGED <<x4Error, x4Created, x4Failed, notX402>>

\* signFn or sendTxFn rejects: the catch block sets the error, marks the
\* invoice failed when it is still the current one and throws on; finally.
AwaitRejected(c) ==
    /\ x4Pays[c].at \in {"signFn", "sendTxFn"}
    /\ x4Error' = "err.message"
    /\ invoice' = MarkInvoice(invoice, x4Pays[c].inv, "failed")
    /\ isProcessing' = FALSE
    /\ x4Failed' = x4Failed \cup {x4Pays[c].inv}
    /\ x4Last' = [kind |-> "rejected", inv |-> x4Pays[c].inv, at |-> x4Pays[c].at]
    /\ x4Pays' = [x4Pays EXCEPT ![c] = NotPaying]
    /\ UNCHANGED <<x4Created, x4Sent, notX402>>

X402Next ==
    \/ CreateInvoice
    \/ \E c \in 1..MaxPaying, inv \in InvoiceIds : PayInvoice(c, inv)
    \/ \E c \in 1..MaxPaying : SignResolves(c)
    \/ \E c \in 1..MaxPaying : SendTxResolves(c)
    \/ \E c \in 1..MaxPaying : AwaitRejected(c)

SpecX402 == X402Init /\ [][X402Next]_vars

(***************************************************************************)
(* The vocabulary of the claims, read off a session.                       *)
(***************************************************************************)

IsConnecting(sess) == "isConnecting" \in DOMAIN sess.state /\ sess.state.isConnecting

ErrorOf(sess) == IF "error" \in DOMAIN sess.state THEN sess.state.error ELSE NULL

\* The active chain family the context exposes (value.chain).
FamilyOf(sess) ==
    IF provider = "UnifiedWalletHook" THEN sess.state.chain ELSE sess.activeChain

\* connectionStatus: Error is the status of a session whose last connect
\* failed and left its error set.
StatusOf(sess) ==
    IF IsConnecting(sess) THEN "Connecting"
    ELSE IF sess.state.isConnected THEN "Connected"
    ELSE IF ErrorOf(sess) # NULL THEN "Error"
    ELSE "Disconnected"

\* A session as it is right after construction, nothing persisted.
Fresh(sess) ==
    /\ sess.state = InitialState
    /\ sess.activeChain = NULL
    /\ sess.storage = EmptyStorage

\* The last call was a connect that went through / that entered its catch block.
ConnectSucceeded ==
    /\ lastOp.op = "connect"
    /\ lastOp.result.kind = "resolved"
    /\ "onError" \notin lastOp.callbacks

ConnectFailed == lastOp.op = "connect" /\ "onError" \in lastOp.callbacks

\* The providers the session claims cite: core/provider.tsx and part_004.
SessionProvider == provider \in {"WalletProvider", "UnifiedWalletProvider"}

(***************************************************************************)
(* Claims                                                                  *)
(***************************************************************************)

\* C1: in every reachable state the address is set iff the active chain
\* family is set, and both are set iff the connection status is Connected.
C1_AddressFamilyConnected ==
    SessionProvider =>
        /\ (state.address # NULL) <=> (FamilyOf(Session) # NULL)
        /\ (FamilyOf(Session) # NULL) <=> (StatusOf(Session) = "Connected")

\* C3: from a fresh session, a connect(chain) that succeeds ends Connected,
\* with activeChainFamily = chain and the address and chainId of the handshake
\* set.
C3_ConnectEndsConnected ==
    (/\ SessionProvider
     /\ ConnectSucceeded
     /\ lastOp.via = "call"
     /\ lastOp.arg[1] # NULL
     /\ Fresh(lastOp.pre))
    => /\ StatusOf(Session) = "Connected"
       /\ FamilyOf(Session) = lastOp.arg[1]
       /\ state.address # NULL
       /\ state.chainId # NULL

\* C4: after a successful connect(X), where localStorage is usable, the store
\* holds <prefix>-chain = X and <prefix>-address = the connected address.
C4_IntentRoundTrip ==
    (/\ SessionProvider
     /\ ConnectSucceeded
     /\ lastOp.arg[1] # NULL
     /\ env = "available")
    => /\ storage[ChainKey] = lastOp.arg[1]
       /\ storage[AddressKey] # NULL
       /\ storage[AddressKey] = state.address

\* C5: signMessage and sendTransaction called while the session is not
\* Connected are rejected with the not-connected error, change nothing of the
\* session and invoke no callback or wallet primitive.
C5_NotConnectedRejected ==
    (/\ lastOp.op \in {"signMessage", "sendTransaction"}
     /\ StatusOf(lastOp.pre) # "Connected")
    => /\ lastOp.result = Rejected("Wallet not connected")
       /\ Session = lastOp.pre
       /\ lastOp.callbacks = {}

\* C5 witness: a sendTransaction was made on a session that has a chosen
\* chain but is not Connected, and the call was rejected.
C5_Witness ==
    /\ lastOp.op = "sendTransaction"
    /\ StatusOf(lastOp.pre) # "Connected"
    /\ FamilyOf(lastOp.pre) # NULL
    /\ lastOp.result.kind = "rejected"

\* C6: switchChain(id) called while Disconnected is rejected with
\* NotConnected and leaves every session field unchanged.
C6_SwitchChainNeedsConnected ==
    (/\ lastOp.op = "switchChain"
     /\ StatusOf(lastOp.pre) = "Disconnected")
    => /\ lastOp.result.kind = "rejected"
       /\ Session = lastOp.pre

\* C7: a connect that fails from a fresh session ends neither Connected nor
\* Connecting, with the error set, the active chain family and the address
\* unset and nothing persisted.
C7_FailedConnectLeavesNothing ==
    (/\ SessionProvider
     /\ ConnectFailed
     /\ Fresh(lastOp.pre))
    => /\ StatusOf(Session) \notin {"Connected", "Connecting"}
       /\ ErrorOf(Session) # NULL
       /\ FamilyOf(Session) = NULL
       /\ state.address = NULL
       /\ storage = EmptyStorage

C9_DisconnectIdempotent ==
    (/\ lastOp.op = "disconnect"
     /\ StatusOf(lastOp.pre) = "Disconnected")
    => Session = lastOp.pre

\* C10: after disconnect() from a state that is not Disconnected, every
\* session field is cleared, both Persisted Intent keys are absent and the
\* status is Disconnected.
C10_DisconnectClears ==
    (/\ lastOp.op = "disconnect"
     /\ StatusOf(lastOp.pre) # "Disconnected")
    => /\ ~state.isConnected
       /\ state.address = NULL
       /\ FamilyOf(Session) = NULL
       /\ state.chain = NULL
       /\ state.chainId = NULL
       /\ state.balance = NULL
       /\ ErrorOf(Session) = NULL
       /\ ~IsConnecting(Session)
       /\ ~evmConnected /\ ~solanaConnected /\ ~tonConnected
       /\ storage[ChainKey] = NULL
       /\ storage[AddressKey] = NULL
       /\ StatusOf(Session) = "Disconnected"

\* C10 witness: disconnect was called on a session in status Error that had
\* an active chain and a chainId.
C10_Witness ==
    /\ lastOp.op = "disconnect"
    /\ StatusOf(lastOp.pre) = "Error"
    /\ lastOp.pre.activeChain # NULL
    /\ lastOp.pre.state.chainId # NULL


\* The page has been mounted and no handler has been called since: what the
\* session shows is what startup did.
AtStartup == phase = "mounted" /\ lastOp.via \in {"none", "autoConnect"}

\* The startup effect invoked connect.
StartupConnected == lastOp.op = "connect" /\ lastOp.via = "autoConnect"

C12_AutoConnectAtMostOnce == SessionProvider => effectConnects <= 1

\* C14: the storage helpers never throw; where there is no usable
\* localStorage (no window, or a localStorage whose calls throw) a read
\* returns null and a write or a remove returns and changes nothing; with a
\* usable localStorage they read, write and remove the key.
C14_StoreNeverThrows ==
    lastStore.op # "none" =>
        /\ ~lastStore.threw
        /\ env # "available" =>
              /\ storage = lastStore.pre
              /\ lastStore.op = "getStorageItem" => lastStore.returned = NULL
        /\ env = "available" =>
              /\ lastStore.op = "getStorageItem" =>
                    lastStore.returned = lastStore.pre[lastStore.key]
              /\ lastStore.op = "setStorageItem" =>
                    storage = [lastStore.pre EXCEPT ![lastStore.key] = lastStore.value]
              /\ lastStore.op = "removeStorageItem" =>
                    storage = [lastStore.pre EXCEPT ![lastStore.key] = NULL]

\* A read of a key that a blocked localStorage holds, which returned.
C14_Witness ==
    /\ env = "throws"
    /\ lastStore.op = "getStorageItem"
    /\ lastStore.pre[lastStore.key] # NULL
    /\ ~lastStore.threw

\* C15: a sequence of connect, disconnect, switchChain, signMessage and
\* sendTransaction calls shows the same states, results and callbacks
\* (onDisconnect, onError) where localStorage is unusable as where it is
\* available: after each call of the second run the application sees what it
\* saw after the same call of the first.
C15_SameWithoutStorage ==
    (replay >= 2 /\ log[replay - 1].call.op # "mount") =>
        Shown = log[replay - 1].shown

\* The last call was a switchChain that resolved.
SwitchChainSucceeded == lastOp.op = "switchChain" /\ lastOp.result.kind = "resolved"

\* C16: a successful switchChain(id) changes chainId only: the active chain
\* family, the address, the connection status, the balance and the persisted
\* keys are as they were before the call.
C16_SwitchChainChangesChainIdOnly ==
    SwitchChainSucceeded =>
        /\ FamilyOf(Session) = FamilyOf(lastOp.pre)
        /\ state.chain = lastOp.pre.state.chain
        /\ state.address = lastOp.pre.state.address
        /\ StatusOf(Session) = StatusOf(lastOp.pre)
        /\ state.balance = lastOp.pre.state.balance
        /\ storage = lastOp.pre.storage

\* C17: switchChain(id) with an id that is not a network of the active chain
\* family is rejected and leaves chainId as it was.
C17_ForeignChainIdRejected ==
    (/\ SessionProvider
     /\ lastOp.op = "switchChain"
     /\ FamilyOf(lastOp.pre) # NULL
     /\ ChainTypeOf(lastOp.arg[1]) # FamilyOf(lastOp.pre)) =>
        /\ lastOp.result.kind = "rejected"
        /\ state.chainId = lastOp.pre.state.chainId

\* C18: no connect leaves the session Connecting, whether it went through or
\* entered its catch block; a connect issued after a failed one is therefore
\* run: it resolves, and what it leaves in error is its own outcome.
C18_ConnectingNotSticky ==
    /\ ~IsConnecting(Session)
    /\ (lastOp.op = "connect" /\ StatusOf(lastOp.pre) = "Error") =>
          /\ lastOp.result.kind = "resolved"
          /\ ConnectSucceeded => StatusOf(Session) = "Disconnected"
          /\ ConnectFailed => StatusOf(Session) = "Error"

\* A connect that failed, and a connect after a failed one that went through.
C18_Witness ==
    /\ lastOp.op = "connect"
    /\ StatusOf(lastOp.pre) = "Error"
    /\ ConnectSucceeded
    /\ StatusOf(Session) = "Disconnected"

\* C19: the onConnect callback is invoked by every connect that goes through
\* and by no connect that fails.
C19_OnConnectInvoked ==
    SessionProvider =>
        /\ ConnectSucceeded => "onConnect" \in lastOp.callbacks
        /\ ConnectFailed => "onConnect" \notin lastOp.callbacks

\* C20: a chain provider's disconnect() never rejects: once the wallet
\* library's disconnect has settled, by resolving or by rejecting, the
\* provider's disconnect() has resolved.
C20_DisconnectNeverRejects ==
    (adLast.op = "disconnect" /\ ~CallInFlight) => adLast.result.kind = "resolved"

\* C21: a send request on a path with no broadcaster wired (NearProvider's
\* callMethod and sendNEAR, CosmosProvider's send) ends in an error: it never
\* resolves with a made-up transaction hash.
C21_NoFabricatedSuccess ==
    ncLast.op \in {"callMethod", "sendNEAR", "send"} =>
        /\ ncLast.result.kind = "rejected"
        /\ ncLast.result.value # FabricatedHash

\* C22: a provider that reports isConnected with an address has that address
\* from a wallet handshake of the current page load, never from localStorage
\* alone.
C22_ConnectedAddressIsLive ==
    (ncState.isConnected /\ ncState.address # NULL) => handshake = ncState.address

\* The last call was a send made under an enabled policy.
SentUnderPolicy ==
    /\ agLast.op \in {"sendTransaction", "transfer"}
    /\ agLast.policy.present
    /\ agLast.policy.enabled

\* C23: with a policy enabled, a sendTransaction or transfer whose amount is
\* above policy.maxAmount is rejected, and nothing is submitted.
C23_OverMaxAmountRejected ==
    (/\ SentUnderPolicy
     /\ \/ agLast.amount.units > agLast.policy.maxAmount
        \/ agLast.amount.units = agLast.policy.maxAmount /\ agLast.amount.dust)
        => agLast.result.kind = "rejected"

\* C24: with a policy enabled, a sendTransaction or transfer that would take
\* the day's total above policy.dailyLimit is rejected.
C24_DailyLimitKept ==
    (/\ SentUnderPolicy
     /\ agLast.sentBefore + agLast.amount.units > agLast.policy.dailyLimit)
        => agLast.result.kind = "rejected"

\* C25: with a policy enabled, a sendTransaction or transfer naming a token
\* outside policy.allowedTokens is rejected, and nothing is submitted.
C25_TokenOutsideAllowedRejected ==
    (/\ SentUnderPolicy
     /\ agLast.token # NULL
     /\ agLast.token \notin agLast.policy.allowedTokens)
        => agLast.result.kind = "rejected"

\* C26: after any register and deleteCredential calls, isRegistered is true
\* exactly when the credentials list is not empty.
C26_RegisteredIffCredentials ==
    pkState.isRegistered <=> (pkState.credentials # << >>)

\* C27: in TonProvider, whatever the order of wallet 'change' events, the
\* initial account check, connect and disconnect (a disconnect whose
\* ton.disconnect() rejects included), isConnected is true exactly when
\* address is not null.
C27_TonConnectedIffAddress ==
    adapter = "ton" => (adState.isConnected <=> adState.address # NULL)

\* A disconnect of TonProvider was rejected while the wallet was connected.
C27_Witness ==
    /\ adapter = "ton"
    /\ adLast.op = "disconnect"
    /\ adLast.result.kind = "rejected"
    /\ adState.isConnected
    /\ adState.address # NULL

\* C28: isSending is true exactly while a sendUserOperation call made with
\* an address is in flight, overlapping calls included, and false once all
\* of them have settled.
C28_SendingIffInFlight ==
    isSending <=> (InFlight # {})

\* The action at i comes back with an unsuccessful result.
Unsuccessful(i) ==
    /\ ~Throws(btActions[i])
    /\ btActions[i].kind # "swap"
    /\ \/ ~Sends(btActions[i])
       \/ btActions[i].send \in {"unsuccessful", "rejects"}

\* C29: batch sends its actions in list order; after the first action with
\* an unsuccessful result it sends nothing more and returns success = false
\* with that action's error.
C29_BatchStopsAtFirstFailure ==
    /\ \A k \in DOMAIN btSent : \A j \in DOMAIN btSent : k < j => btSent[k] < btSent[j]
    /\ \A k \in DOMAIN btSent : \A i \in 1..(btSent[k] - 1) : ~Unsuccessful(i)
    /\ \A i \in DOMAIN btActions :
           (/\ i < btIndex
            /\ Unsuccessful(i)
            /\ \A j \in 1..(i - 1) : ~Unsuccessful(j) /\ ~Throws(btActions[j]))
               => /\ btOutcome.kind = "returned"
                  /\ btOutcome.success = FALSE
                  /\ btOutcome.error.at = i

\* The second action of three was sent and came back unsuccessful, the
\* third one could have been sent.
C29_Witness ==
    /\ Len(btActions) = 3
    /\ btSent = <<1, 2>>
    /\ btActions[2].send = "unsuccessful"
    /\ Sends(btActions[3])
    /\ btOutcome.kind = "returned"
    /\ btOutcome.success = FALSE
    /\ btOutcome.error.at = 2

\* C30: the current invoice is 'paid' only when sendTxFn resolved for it,
\* sendTxFn is called only after signFn resolved, and the current invoice
\* is 'failed' right after signFn or sendTxFn rejected for it.
C30_PaidOnlyWhenSent ==
    /\ invoice.status = "paid" => invoice.id \in x4Sent
    /\ \A c \in 1..MaxPaying : x4Pays[c].at = "sendTxFn" => x4Pays[c].signed
    /\ (x4Last.kind = "rejected" /\ x4Last.inv = invoice.id)
           => invoice.status = "failed"

\* The current invoice was paid at a second attempt, after a payment of it
\* had been rejected.
C30_Witness ==
    /\ invoice.status = "paid"
    /\ invoice.id \in x4Failed
    /\ x4Last.kind = "resolved"
    /\ x4Last.inv = invoice.id

=============================================================================
